---- MODULE Spec2Model ----
(***************************************************************************)
(* hassctl: a command-line client of the Home Assistant REST API.          *)
(* Model of src/src/main.rs and src/src/dto.rs.                            *)
(*                                                                         *)
(* Strings are sequences of atoms: single characters where the code looks  *)
(* inside a string (entity identifiers, target domains, port numbers) and  *)
(* whole literals where it only concatenates or prints them.  Option<T> is *)
(* a sequence of length at most one: None is <<>>, Some(x) is <<x>>.       *)
(***************************************************************************)
EXTENDS Integers, Sequences, FiniteSets, TLC

\* ------------------------------------------------------------------ bounds
\* longest /api/services response (service domain groups)
MaxDomains == 2
\* longest /api/states response (entity states)
MaxStates == 2
\* longest port string drawn over PortAlphabet
MaxPortLen == 5
\* longest domain list of one target entity in TargetServices
MaxTargetDomains == 2

\* ----------------------------------------------------------------- helpers
None == <<>>
Some(x) == <<x>>
IsSome(o) == Len(o) = 1
Unwrap(o) == o[1]

SeqUpTo(S, n) == UNION {[1..k -> S] : k \in 0..n}

RECURSIVE Concat(_)
\* the concatenation of a sequence of sequences
Concat(ss) == IF ss = <<>> THEN <<>> ELSE Head(ss) \o Concat(Tail(ss))

\* the orders in which a HashMap with key set S may be iterated
Perms(S) == {p \in [1..Cardinality(S) -> S] : \A i, j \in 1..Cardinality(S) : p[i] = p[j] => i = j}

\* one println! for each line
PrintAll(lines) == [i \in 1..Len(lines) |-> [kind |-> "print", line |-> lines[i]]]

\* --------------------------------------------------------------- constants
NAME == <<"hassctl">>
ACCESS_TOKEN_KEY == "HASSCTL_ACCESS_TOKEN"
PORT_KEY == "HASSCTL_PORT"
DEFAULT_PORT == 8123
HOST_KEY == "HASSCTL_HOST"
EnvKeys == {ACCESS_TOKEN_KEY, HOST_KEY, PORT_KEY}

\* u16::MAX, the largest value of the port's type
U16Max == 65535

\* ------------------------------------------------------------- environment
\* std::env::var(key): Ok(value), Err(NotPresent) or Err(NotUnicode)
VarOk(s) == [tag |-> "Ok", val |-> s]
NotPresent == [tag |-> "NotPresent", val |-> <<>>]
NotUnicode == [tag |-> "NotUnicode", val |-> <<>>]

\* dotenv::dotenv(): every variable of the .env file that std::env::var does
\* not read successfully is set from the file; a missing file changes nothing
dotenv(e, file) ==
  [k \in EnvKeys |-> IF e[k].tag # "Ok" /\ file[k].tag = "Ok" THEN file[k] ELSE e[k]]

\* dotenv::var(key): loads the .env file (once), then std::env::var(key)
dotenv_var(e, file, key) == dotenv(e, file)[key]

\* ------------------------------------------------------------ str::parse
Digits == <<"0", "1", "2", "3", "4", "5", "6", "7", "8", "9">>
IsDigit(c) == \E d \in 1..10 : Digits[d] = c
DigitVal(c) == (CHOOSE d \in 1..10 : Digits[d] = c) - 1

RECURSIVE ParseDigits(_, _)
\* the digit loop of u16::from_str: acc * 10 + digit, each step checked for
\* overflow of the 16 bit accumulator; <<>> is Err(ParseIntError)
ParseDigits(s, acc) ==
  IF s = <<>> THEN Some(acc)
  ELSE IF ~IsDigit(Head(s)) THEN None
  ELSE IF acc * 10 > U16Max THEN None
  ELSE IF acc * 10 + DigitVal(Head(s)) > U16Max THEN None
  ELSE ParseDigits(Tail(s), acc * 10 + DigitVal(Head(s)))

\* ParseDigits without the overflow checks: the accumulator wraps
RECURSIVE ParseDigitsWrapping(_, _)
ParseDigitsWrapping(s, acc) ==
  IF s = <<>> THEN Some(acc)
  ELSE IF ~IsDigit(Head(s)) THEN None
  ELSE ParseDigitsWrapping(Tail(s), (acc * 10 + DigitVal(Head(s))) % (U16Max + 1))

\* s.parse::<u16>(): empty is an error, one leading '+' is accepted, a lone
\* sign is an error, '-' is no digit of an unsigned type
ParseU16Wrapping(s) ==
  IF s = <<>> THEN None
  ELSE IF Head(s) = "+" THEN (IF Tail(s) = <<>> THEN None ELSE ParseDigitsWrapping(Tail(s), 0))
  ELSE ParseDigitsWrapping(s, 0)

ParseU16(s) ==
  IF s = <<>> THEN None
  ELSE IF Head(s) = "+" THEN (IF Tail(s) = <<>> THEN None ELSE ParseDigits(Tail(s), 0))
  ELSE ParseDigits(s, 0)

\* ------------------------------------------------------------ Client::setup
\* Result<Client, ClientError>
SetupOk(token, host, port) ==
  [tag |-> "Ok", err |-> "", access_token |-> token, host |-> host, port |-> port]
SetupErr(e) == [tag |-> "Err", err |-> e, access_token |-> <<>>, host |-> <<>>, port |-> 0]

\* the port match of setup
SetupPort(token, host, p) ==
  IF p.tag = "Ok" THEN
    (IF IsSome(ParseU16(p.val)) THEN SetupOk(token, host, Unwrap(ParseU16(p.val)))
     ELSE SetupErr("InvalidPort"))
  ELSE IF p.tag = "NotPresent" THEN SetupOk(token, host, DEFAULT_PORT)
  ELSE SetupErr("InvalidPort")

\* the host match of setup
SetupHost(token, e) ==
  IF e[HOST_KEY].tag = "Ok" THEN SetupPort(token, e[HOST_KEY].val, e[PORT_KEY])
  ELSE IF e[HOST_KEY].tag = "NotPresent" THEN SetupErr("MissingHost")
  ELSE SetupErr("InvalidHost")

setup(e, file) ==
  IF e[ACCESS_TOKEN_KEY].tag = "Ok" THEN SetupHost(e[ACCESS_TOKEN_KEY].val, e)
  ELSE IF e[ACCESS_TOKEN_KEY].tag = "NotPresent" THEN
    (IF dotenv_var(e, file, ACCESS_TOKEN_KEY).tag = "Ok"
     THEN SetupHost(dotenv_var(e, file, ACCESS_TOKEN_KEY).val, e)
     ELSE SetupErr("MissingAccessToken"))
  ELSE SetupErr("InvalidAccessToken")

error_description(e) ==
  IF e = "MissingAccessToken" THEN
    <<"Missing access token\n\nTo authenticate requests to Home Assistant, ">> \o NAME
      \o <<"\nneeds to have an access token.\n\nGo to your profile in the Home Assistant dashboard,\nand select the Security tab. Create a long-lived token,\nand make sure to copy the token.\n\nThen create an environment variable named ",
           ACCESS_TOKEN_KEY, "\nwith the access token as value.">>
  ELSE IF e = "InvalidAccessToken" THEN <<"Invalid access token!">>
  ELSE IF e = "MissingHost" THEN
    <<"Missing host.\n\nHost must be specified in the environment variable ", HOST_KEY, ".\n">>
  ELSE IF e = "InvalidHost" THEN <<"Invalid host.">>
  ELSE <<"Invalid port.">>

\* ------------------------------------------------------------------ dto.rs
\* serde_json::Value, as far as the program tells values apart
JsonString(s) == [t |-> "String", v |-> s]
JsonNumber(n) == [t |-> "Number", v |-> <<n>>]

\* StateDto; attributes is a HashMap, here a function on its key set
StateDto(id, st, attrs) ==
  [entity_id |-> id, state |-> st, last_changed |-> <<"2023-01-01T00:00:00Z">>, attributes |-> attrs]

NoAttributes == [k \in {} |-> JsonNumber(0)]

\* ServiceTargetEntityDto { domain }, ServiceTargetDto { entity }, ServiceDto
TargetEntity(dom) == [domain |-> dom]
Target(ent) == [entity |-> ent]
ServiceDto(name, descr, target) == [name |-> name, description |-> descr, target |-> target]

RECURSIVE FlattenDomains(_)
\* filter_map(|entity| entity.domain.as_ref()).flat_map(|domains| domains.iter())
FlattenDomains(entities) ==
  IF entities = <<>> THEN <<>>
  ELSE (IF IsSome(Head(entities).domain) THEN Unwrap(Head(entities).domain) ELSE <<>>)
       \o FlattenDomains(Tail(entities))

\* ServiceDto::get_target_entity_domains: Option<Vec<String>>
get_target_entity_domains(svc) ==
  IF ~IsSome(svc.target) THEN None
  ELSE IF ~IsSome(Unwrap(svc.target).entity) THEN None
  ELSE Some(FlattenDomains(Unwrap(Unwrap(svc.target).entity)))

\* StateDto::friendly_name ignoring the type of the attribute's value
friendly_name_any_type(st) ==
  IF "friendly_name" \in DOMAIN st.attributes
  THEN Some(st.attributes["friendly_name"].v) ELSE None

\* StateDto::friendly_name: Option<String>
friendly_name(st) ==
  IF "friendly_name" \in DOMAIN st.attributes
  THEN (IF st.attributes["friendly_name"].t = "String"
        THEN Some(st.attributes["friendly_name"].v) ELSE None)
  ELSE None

\* StateDto::name
name(st) == IF IsSome(friendly_name(st)) THEN Unwrap(friendly_name(st)) ELSE st.entity_id

\* Display of a serde_json::Value ({}): its JSON text
JsonDisplay(v) == IF v.t = "String" THEN <<"\"">> \o v.v \o <<"\"">> ELSE v.v
\* Debug of a serde_json::Value ({:?})
JsonDebug(v) ==
  IF v.t = "String" THEN <<"String(\"">> \o v.v \o <<"\")">> ELSE <<"Number(">> \o v.v \o <<")">>
\* Debug of a String ({:?}): quoted
StrDebug(s) == <<"\"">> \o s \o <<"\"">>

\* StateDto::pretty_print: the lines printed, the attributes in HashMap order `order`
pretty_print(st, with_attributes, order) ==
  << IF IsSome(friendly_name(st))
     THEN st.entity_id \o <<" - ">> \o Unwrap(friendly_name(st)) \o <<" (">> \o st.state \o <<")">>
     ELSE st.entity_id \o <<" (">> \o st.state \o <<")">> >>
  \o (IF with_attributes
      THEN [i \in 1..Len(order) |->
              <<"  - ">> \o <<order[i]>> \o <<": ">> \o JsonDisplay(st.attributes[order[i]])]
      ELSE <<>>)

\* ---------------------------------------------------- matching and filtering
\* str::starts_with(&str)
StartsWith(s, p) == Len(p) <= Len(s) /\ SubSeq(s, 1, Len(p)) = p
\* str::starts_with(char)
StartsWithChar(s, c) == Len(s) >= 1 /\ s[1] = c
\* &s[n..]
SliceFrom(s, n) == SubSeq(s, n + 1, Len(s))

\* the closure of fetch_entities_by_domain without the separator test
EntityInDomainPrefixOnly(id, d) == StartsWith(id, d)

\* the closure of fetch_entities_by_domain for one domain d
EntityInDomain(id, d) == StartsWith(id, d) /\ StartsWithChar(SliceFrom(id, Len(d)), ".")

\* Client::fetch_entities_by_domain, applied to the /api/states response `all`
fetch_entities_by_domain(all, domains) ==
  SelectSeq(all, LAMBDA e : \E k \in 1..Len(domains) : EntityInDomain(e.entity_id, domains[k]))

\* the filter of cmd_scene_list keeping every identifier that starts with "scene"
SceneFilterNoSeparator(list) ==
  SelectSeq(list, LAMBDA s : StartsWith(s.entity_id, <<"s", "c", "e", "n", "e">>))

\* the filter of cmd_scene_list
SceneFilter(list) ==
  SelectSeq(list, LAMBDA s : StartsWith(s.entity_id, <<"s", "c", "e", "n", "e", ".">>))

\* ------------------------------------------------- the world the program meets
light == <<"l", "i", "g", "h", "t">>
scene == <<"s", "c", "e", "n", "e">>
switch == <<"s", "w", "i", "t", "c", "h">>

Tokens == {<<"token-from-env">>, <<"token-from-file">>}
Hosts == {<<"ha.local">>}

\* entity states the server may report
StateDtos ==
  { StateDto(light \o <<".", "k">>, <<"on">>, [k \in {"friendly_name"} |-> JsonString(<<"Kitchen">>)]),
    StateDto(light \o <<"i", "n", "g", ".", "f">>, <<"off">>, NoAttributes),
    StateDto(scene \o <<".", "a">>, <<"2024-05-01T20:00:00+00:00">>,
             [k \in {"friendly_name", "icon"} |->
                IF k = "icon" THEN JsonString(<<"mdi:sofa">>) ELSE JsonString(<<"Evening">>)]),
    StateDto(scene \o <<".", "c">>, <<"unknown">>, [k \in {"friendly_name"} |-> JsonNumber(3)]),
    StateDto(scene \o <<"r", "y", ".", "x">>, <<"on">>, NoAttributes) }

\* service domain groups the server may report (ServiceDomainDto); services is a
\* HashMap, here a function on its key set
ServiceDomainDtos ==
  { [domain |-> light,
     services |-> [k \in {<<"turn_on">>, <<"toggle">>} |->
        IF k = <<"turn_on">>
        THEN ServiceDto(<<"Turn on">>, Some(<<"Turns on a light">>),
                        Some(Target(Some(<<TargetEntity(Some(<<switch, light>>)),
                                           TargetEntity(None),
                                           TargetEntity(Some(<<scene>>))>>))))
        ELSE ServiceDto(<<"Toggle">>, None, None)]],
    [domain |-> light,
     services |-> [k \in {} |-> ServiceDto(<<>>, None, None)]],
    [domain |-> <<"homeassistant">>,
     services |-> [k \in {<<"turn_on">>, <<"reload">>} |->
        IF k = <<"turn_on">>
        THEN ServiceDto(<<"Generic turn on">>, None, Some(Target(Some(<<TargetEntity(None)>>))))
        ELSE ServiceDto(<<"Reload">>, Some(<<"Reloads the configuration">>), Some(Target(None)))]] }

\* what a transport call may come to: Ok(value), or a reqwest::Error from
\* send() (network failure) or from json() (a response that does not decode)
Ok(v) == [tag |-> "Ok", val |-> v]
Err(e) == [tag |-> "Err", val |-> e]
TransportErrors == {Err("send"), Err("decode")}
StatesResponses == {Ok(l) : l \in SeqUpTo(StateDtos, MaxStates)} \cup TransportErrors
StateResponses == {Ok(st) : st \in StateDtos} \cup TransportErrors
ServicesResponses == {Ok(l) : l \in SeqUpTo(ServiceDomainDtos, MaxDomains)} \cup TransportErrors
CallResponses == {Ok(<<>>)} \cup TransportErrors

\* the accepted command lines (clap's Commands)
Commands ==
  {[name |-> n, entity_id |-> <<>>] :
     n \in {"scene list", "scene show", "entity list", "service list", "call"}}
  \cup {[name |-> n, entity_id |-> id] :
     n \in {"scene enable", "entity show"}, id \in {scene \o <<".", "a">>, light \o <<".", "k">>}}

NoFile == [k \in EnvKeys |-> NotPresent]

\* ------------------------------------------------------------------- state
VARIABLES
  pc,         \* where main is: "main", "setup", "dispatch", a step of cmd_call, "done", "panicked"
  cmd,        \* cli.command
  env,        \* the process environment
  dotfile,    \* the variables of the .env file
  client,     \* None before Client::setup, then Some of its Result
  events,     \* what the program did to the world, in order: requests, prompts, prints
  domains,    \* cmd_call: the /api/services response
  domain_id,  \* cmd_call: Option, the domain picked
  domain,     \* cmd_call: Option, the group found for domain_id
  service_id, \* cmd_call: Option, the service picked
  service,    \* cmd_call: Option, its ServiceDto
  entities,   \* cmd_call: the candidate entities
  entity_id   \* cmd_call: Option, the entity picked

vars == <<pc, cmd, env, dotfile, client, events, domains, domain_id, domain,
          service_id, service, entities, entity_id>>
locals == <<domains, domain_id, domain, service_id, service, entities, entity_id>>

\* ------------------------------------------------------------------ events
\* Client::build_url
build_url(c, path) == <<"http://">> \o c.host \o <<":", ToString(c.port)>> \o path

\* one request sent by Client::get (body None) or Client::post, and how it ended
Request(c, method, path, body, r) ==
  [kind |-> "request", method |-> method, url |-> build_url(c, path), path |-> path,
   bearer |-> c.access_token, body |-> body, ok |-> (r.tag = "Ok"), response |-> r]
\* one println!
Println(line) == [kind |-> "print", line |-> line]
\* one FuzzySelect shown, and what interact() answered
Prompt(prompt, options, answer) ==
  [kind |-> "prompt", prompt |-> prompt, options |-> options, answer |-> answer]

\* Debug of a reqwest::Error
ErrDebug(r) == <<"reqwest::Error { kind: ", r.val, " }">>

\* ServiceDataDto as JSON
ServiceDataDto(id) == [k \in {"entity_id"} |-> id]

TheClient == Unwrap(client)

Init ==
  /\ pc = "main"
  /\ cmd \in Commands
  /\ env \in {e \in [EnvKeys -> {NotPresent, NotUnicode} \cup {VarOk(t) : t \in Tokens \cup Hosts}
                                 \cup {VarOk(<<"a", "b", "c">>)}] :
                /\ e[ACCESS_TOKEN_KEY] \in {NotPresent, NotUnicode, VarOk(<<"token-from-env">>)}
                /\ e[HOST_KEY] \in {NotPresent, NotUnicode, VarOk(<<"ha.local">>)}
                /\ e[PORT_KEY] \in {NotPresent, NotUnicode, VarOk(<<"a", "b", "c">>)}}
  /\ dotfile \in {NoFile} \cup (IF env[ACCESS_TOKEN_KEY].tag = "Ok" THEN {}
                                ELSE {[NoFile EXCEPT ![ACCESS_TOKEN_KEY] = VarOk(<<"token-from-file">>)]})
  /\ client = None
  /\ events = <<>>
  /\ domains = <<>>
  /\ domain_id = None
  /\ domain = None
  /\ service_id = None
  /\ service = None
  /\ entities = <<>>
  /\ entity_id = None

\* main, line 333: dotenv::dotenv().ok(), then Cli::parse() of an accepted command line
MainDotenv ==
  /\ pc = "main"
  /\ env' = dotenv(env, dotfile)
  /\ pc' = "setup"
  /\ UNCHANGED <<cmd, dotfile, client, events, locals>>

\* MainSetup without the return of line 340
MainSetupNoReturn ==
  /\ pc = "setup"
  /\ client' = Some(setup(env, dotfile))
  /\ pc' = "dispatch"
  /\ events' = IF setup(env, dotfile).tag = "Ok" THEN events
               ELSE Append(events,
                 Println(<<"Failed to create client:\n\n">> \o error_description(setup(env, dotfile).err)))
  /\ UNCHANGED <<cmd, env, dotfile, locals>>

\* main, lines 336-342: Client::setup() and its match
MainSetup ==
  /\ pc = "setup"
  /\ client' = Some(setup(env, dotfile))
  /\ IF setup(env, dotfile).tag = "Ok"
     THEN /\ pc' = "dispatch"
          /\ events' = events
     ELSE /\ pc' = "done"
          /\ events' = Append(events,
               Println(<<"Failed to create client:\n\n">> \o error_description(setup(env, dotfile).err)))
  /\ UNCHANGED <<cmd, env, dotfile, locals>>

\* the orders in which the attribute maps of the states of `list` may be iterated
AttrOrders(list) ==
  {f \in [1..Len(list) -> UNION {Perms(DOMAIN list[k].attributes) : k \in 1..Len(list)}] :
     \A k \in 1..Len(list) : f[k] \in Perms(DOMAIN list[k].attributes)}

\* the orders in which the service maps of the groups of `list` may be iterated
ServiceOrders(list) ==
  {f \in [1..Len(list) -> UNION {Perms(DOMAIN list[k].services) : k \in 1..Len(list)}] :
     \A k \in 1..Len(list) : f[k] \in Perms(DOMAIN list[k].services)}

Finish(evs) ==
  /\ events' = events \o evs
  /\ pc' = "done"
  /\ UNCHANGED <<cmd, env, dotfile, client, locals>>

\* cmd_entity_list
cmd_entity_list ==
  /\ pc = "dispatch" /\ cmd.name = "entity list"
  /\ \E r \in StatesResponses :
       Finish(<<Request(TheClient, "GET", <<"/api/states">>, None, r)>>
              \o IF r.tag = "Ok"
                 THEN PrintAll(Concat([i \in 1..Len(r.val) |-> pretty_print(r.val[i], FALSE, <<>>)]))
                 ELSE <<Println(<<"Failed to fetch entity list: ">> \o ErrDebug(r))>>)

\* cmd_entity_show
cmd_entity_show ==
  /\ pc = "dispatch" /\ cmd.name = "entity show"
  /\ \E r \in StateResponses :
       \E order \in (IF r.tag = "Ok" THEN Perms(DOMAIN r.val.attributes) ELSE {<<>>}) :
         Finish(<<Request(TheClient, "GET", <<"/api/states/">> \o cmd.entity_id, None, r)>>
                \o IF r.tag = "Ok"
                   THEN PrintAll(pretty_print(r.val, TRUE, order))
                   ELSE <<Println(<<"Failed to fetch entity list: ">> \o ErrDebug(r))>>)

\* the lines cmd_service_list prints for one group, its services in HashMap order `order`
ServiceLines(group, order) ==
  <<Println(<<"\nDomain: ">> \o group.domain)>>
  \o [i \in 1..Len(order) |->
        IF IsSome(group.services[order[i]].description)
        THEN Println(<<"  - '">> \o order[i] \o <<"' - ">> \o group.services[order[i]].name
                     \o <<": ">> \o Unwrap(group.services[order[i]].description))
        ELSE Println(<<"  - '">> \o order[i] \o <<"' - ">> \o group.services[order[i]].name)]

\* cmd_service_list
cmd_service_list ==
  /\ pc = "dispatch" /\ cmd.name = "service list"
  /\ \E r \in ServicesResponses :
       \E orders \in (IF r.tag = "Ok" THEN ServiceOrders(r.val) ELSE {<<>>}) :
         Finish(<<Request(TheClient, "GET", <<"/api/services">>, None, r)>>
                \o IF r.tag = "Ok"
                   THEN Concat([i \in 1..Len(r.val) |-> ServiceLines(r.val[i], orders[i])])
                   ELSE <<Println(<<"Failed to fetch service list: ">> \o ErrDebug(r))>>)

\* the line cmd_scene_list prints first for one scene
SceneLine(st) ==
  IF IsSome(friendly_name(st))
  THEN Println(<<"Scene: ">> \o StrDebug(Unwrap(friendly_name(st))) \o <<" (">>
               \o StrDebug(st.entity_id) \o <<"). State: ">> \o StrDebug(st.state))
  ELSE Println(<<"Scene: ">> \o StrDebug(st.entity_id) \o <<". State: ">> \o StrDebug(st.state))

\* the lines cmd_scene_list prints for one scene, its attributes in HashMap order `order`
SceneLines(st, order) ==
  <<SceneLine(st), Println(<<" - Attributes:">>)>>
  \o [i \in 1..Len(order) |->
        Println(<<"   ", order[i], ": ">> \o JsonDebug(st.attributes[order[i]]))]
  \o <<Println(<<"">>)>>

\* the line cmd_scene_list prints before the scenes
SceneCountLine(scenes) == Println(<<ToString(Len(scenes)), " scenes found:">>)

\* cmd_scene_list
cmd_scene_list ==
  /\ pc = "dispatch" /\ cmd.name = "scene list"
  /\ \E r \in StatesResponses :
       \E orders \in (IF r.tag = "Ok" THEN AttrOrders(SceneFilter(r.val)) ELSE {<<>>}) :
         Finish(<<Request(TheClient, "GET", <<"/api/states">>, None, r)>>
                \o IF r.tag = "Ok"
                   THEN <<SceneCountLine(SceneFilter(r.val))>>
                        \o Concat([i \in 1..Len(SceneFilter(r.val)) |->
                                     SceneLines(SceneFilter(r.val)[i], orders[i])])
                   ELSE <<Println(<<"Failed to fetch scene list: ">> \o ErrDebug(r))>>)

\* main, line 347: SceneCommands::Show => todo!()
cmd_scene_show ==
  /\ pc = "dispatch" /\ cmd.name = "scene show"
  /\ pc' = "panicked"
  /\ UNCHANGED <<cmd, env, dotfile, client, events, locals>>

\* cmd_scene_enable
cmd_scene_enable ==
  /\ pc = "dispatch" /\ cmd.name = "scene enable"
  /\ \E r \in CallResponses :
       Finish(<<Request(TheClient, "POST", <<"/api/services/scene/turn_on">>,
                        Some(ServiceDataDto(cmd.entity_id)), r),
                IF r.tag = "Ok" THEN Println(<<"Scene enabled.">>)
                ELSE Println(<<"Failed to enable scene.">>)>>)

\* ---------------------------------------------------------------- cmd_call
\* prompt_for_selection: interact() answers the index of one of the options,
\* here Some(i) with i counted from 1, or an io::Error (no terminal, the read
\* interrupted; the only outcomes when there is nothing to pick), here None,
\* on which unwrap() panics
prompt_for_selection(options) == {Some(i) : i \in 1..Len(options)} \cup {None}

\* domains.iter().find(|d| d.domain == id).unwrap(): the first group of that name
FindDomain(list, id) ==
  list[CHOOSE k \in 1..Len(list) :
         list[k].domain = id /\ \A j \in 1..(k - 1) : list[j].domain # id]

\* cmd_call, lines 223-226: the candidates from the /api/states response `all`
Candidates(svc, all) ==
  IF IsSome(get_target_entity_domains(svc))
  THEN fetch_entities_by_domain(all, Unwrap(get_target_entity_domains(svc)))
  ELSE all

\* the path of call_service built with domain and service swapped
CallPathSwapped(d, s) == <<"/api/services/">> \o s \o <<"/">> \o d

\* call_service, line 155: format!("/api/services/{}/{}", domain, service)
CallPath(d, s) == <<"/api/services/">> \o d \o <<"/">> \o s

\* cmd_call, line 212: fetch_services()?
CallFetchServices ==
  /\ pc = "dispatch" /\ cmd.name = "call"
  /\ \E r \in ServicesResponses :
       /\ events' = Append(events, Request(TheClient, "GET", <<"/api/services">>, None, r))
       /\ IF r.tag = "Ok"
          THEN domains' = r.val /\ pc' = "call_domain"
          ELSE domains' = domains /\ pc' = "done"
  /\ UNCHANGED <<cmd, env, dotfile, client, domain_id, domain, service_id, service,
                 entities, entity_id>>

\* cmd_call, lines 213-216: the Domain prompt
CallPromptDomain ==
  /\ pc = "call_domain"
  /\ LET domain_ids == [k \in 1..Len(domains) |-> domains[k].domain] IN
     \E i \in prompt_for_selection(domain_ids) :
       /\ events' = Append(events, Prompt("Domain", domain_ids, i))
       /\ IF IsSome(i)
          THEN /\ domain_id' = Some(domain_ids[Unwrap(i)])
               /\ domain' = Some(FindDomain(domains, domain_ids[Unwrap(i)]))
               /\ pc' = "call_service"
          ELSE /\ UNCHANGED <<domain_id, domain>>
               /\ pc' = "panicked"
  /\ UNCHANGED <<cmd, env, dotfile, client, domains, service_id, service, entities, entity_id>>

\* cmd_call, lines 218-221: the Service prompt, the keys in HashMap order
CallPromptService ==
  /\ pc = "call_service"
  /\ \E service_ids \in Perms(DOMAIN Unwrap(domain).services) :
     \E i \in prompt_for_selection(service_ids) :
       /\ events' = Append(events, Prompt("Service", service_ids, i))
       /\ IF IsSome(i)
          THEN /\ service_id' = Some(service_ids[Unwrap(i)])
               /\ service' = Some(Unwrap(domain).services[service_ids[Unwrap(i)]])
               /\ pc' = "call_entities"
          ELSE /\ UNCHANGED <<service_id, service>>
               /\ pc' = "panicked"
  /\ UNCHANGED <<cmd, env, dotfile, client, domains, domain_id, domain, entities, entity_id>>

\* CallFetchEntities with the transport error dropped instead of returned
CallFetchEntitiesErrorDropped ==
  /\ pc = "call_entities"
  /\ \E r \in StatesResponses :
       /\ events' = Append(events, Request(TheClient, "GET", <<"/api/states">>, None, r))
       /\ entities' = IF r.tag = "Ok" THEN Candidates(Unwrap(service), r.val) ELSE <<>>
       /\ pc' = "call_entity"
  /\ UNCHANGED <<cmd, env, dotfile, client, domains, domain_id, domain, service_id, service,
                 entity_id>>

\* cmd_call, lines 223-226: fetch_entities()? or fetch_entities_by_domain(d)?
CallFetchEntities ==
  /\ pc = "call_entities"
  /\ \E r \in StatesResponses :
       /\ events' = Append(events, Request(TheClient, "GET", <<"/api/states">>, None, r))
       /\ IF r.tag = "Ok"
          THEN entities' = Candidates(Unwrap(service), r.val) /\ pc' = "call_entity"
          ELSE entities' = entities /\ pc' = "done"
  /\ UNCHANGED <<cmd, env, dotfile, client, domains, domain_id, domain, service_id, service,
                 entity_id>>

\* cmd_call, lines 227-229: the Entity prompt
CallPromptEntity ==
  /\ pc = "call_entity"
  /\ LET entity_ids == [k \in 1..Len(entities) |-> entities[k].entity_id] IN
     \E i \in prompt_for_selection(entity_ids) :
       /\ events' = Append(events, Prompt("Entity", entity_ids, i))
       /\ IF IsSome(i)
          THEN entity_id' = Some(entity_ids[Unwrap(i)]) /\ pc' = "call_post"
          ELSE entity_id' = entity_id /\ pc' = "panicked"
  /\ UNCHANGED <<cmd, env, dotfile, client, domains, domain_id, domain, service_id, service,
                 entities>>

\* cmd_call, lines 231-234: call_service(..)?, the success line; main drops the Result
CallService ==
  /\ pc = "call_post"
  /\ \E r \in CallResponses :
       Finish(<<Request(TheClient, "POST", CallPath(Unwrap(domain_id), Unwrap(service_id)),
                        Some(ServiceDataDto(Unwrap(entity_id))), r)>>
              \o IF r.tag = "Ok" THEN <<Println(<<"Service called successfully">>)>> ELSE <<>>)

\* ------------------------------------------------------------ specification
Next ==
  \/ MainDotenv
  \/ MainSetup
  \/ cmd_entity_list
  \/ cmd_entity_show
  \/ cmd_service_list
  \/ cmd_scene_list
  \/ cmd_scene_show
  \/ cmd_scene_enable
  \/ CallFetchServices
  \/ CallPromptDomain
  \/ CallPromptService
  \/ CallFetchEntities
  \/ CallPromptEntity
  \/ CallService

Spec == Init /\ [][Next]_vars

\* ------------------------------------------- Client::setup on its own inputs
\* port strings: every string over PortAlphabet up to MaxPortLen, and some more
PortAlphabet == {"3", "5", "6", "+", "-"}
PortExamples ==
  { <<"a", "b", "c">>, <<"8", "1", "2", "3">>, <<"-", "1">>, <<"0">>, <<"0", "8", "0">>,
    <<"6", "5", "5", "3", "6">>, <<"6", "5", "5", "3", "5">>, <<"0", "6", "5", "5", "3", "5">>,
    <<"8", "0", " ">>, <<"9", "9", "9", "9", "9">> }
PortStrings == SeqUpTo(PortAlphabet, MaxPortLen) \cup PortExamples

DotFiles ==
  { NoFile,
    [NoFile EXCEPT ![ACCESS_TOKEN_KEY] = VarOk(<<"token-from-file">>)],
    [k \in EnvKeys |-> IF k = ACCESS_TOKEN_KEY THEN VarOk(<<"token-from-file">>)
                       ELSE IF k = HOST_KEY THEN VarOk(<<"ha.local">>)
                       ELSE VarOk(<<"8", "1", "2", "4">>)] }

InitSetup ==
  /\ pc = "main"
  /\ cmd = [name |-> "entity list", entity_id |-> <<>>]
  /\ \E t \in {NotPresent, NotUnicode, VarOk(<<"token-from-env">>)},
        h \in {NotPresent, NotUnicode, VarOk(<<"ha.local">>)},
        p \in {NotPresent, NotUnicode} \cup {VarOk(str) : str \in PortStrings} :
       env = [k \in EnvKeys |-> IF k = ACCESS_TOKEN_KEY THEN t ELSE IF k = HOST_KEY THEN h ELSE p]
  /\ dotfile \in DotFiles
  /\ client = None
  /\ events = <<>>
  /\ domains = <<>>
  /\ domain_id = None
  /\ domain = None
  /\ service_id = None
  /\ service = None
  /\ entities = <<>>
  /\ entity_id = None

NextSetup == MainDotenv \/ MainSetup

SpecSetup == InitSetup /\ [][NextSetup]_vars

\* ------------------------------- the entity step of cmd_call on its own inputs
DomainStrings ==
  { light, scene, <<>>, <<"l">>, light \o <<".">>, light \o <<"i", "n", "g">>,
    light \o <<".", "k">>, <<".">> }

\* services whose target is any list of DomainStrings, or no target at all
TargetServices ==
  {ServiceDto(<<"Some service">>, None, Some(Target(Some(<<TargetEntity(Some(ds))>>)))) :
     ds \in SeqUpTo(DomainStrings, MaxTargetDomains)}
  \cup {ServiceDto(<<"Any entity">>, None, None)}

FixedClient == SetupOk(<<"token-from-env">>, <<"ha.local">>, DEFAULT_PORT)

\* cmd_call after the user picked the only service of the only group reported
InitFilter ==
  \E svc \in TargetServices :
    LET group == [domain |-> light, services |-> [k \in {<<"svc">>} |-> svc]] IN
    /\ pc = "call_entities"
    /\ cmd = [name |-> "call", entity_id |-> <<>>]
    /\ env = [k \in EnvKeys |-> IF k = ACCESS_TOKEN_KEY THEN VarOk(<<"token-from-env">>)
                                ELSE IF k = HOST_KEY THEN VarOk(<<"ha.local">>) ELSE NotPresent]
    /\ dotfile = NoFile
    /\ client = Some(FixedClient)
    /\ events = << Request(FixedClient, "GET", <<"/api/services">>, None, Ok(<<group>>)),
                   Prompt("Domain", <<light>>, Some(1)), Prompt("Service", << <<"svc">> >>, Some(1)) >>
    /\ domains = <<group>>
    /\ domain_id = Some(light)
    /\ domain = Some(group)
    /\ service_id = Some(<<"svc">>)
    /\ service = Some(svc)
    /\ entities = <<>>
    /\ entity_id = None

NextFilter == CallFetchEntities \/ CallPromptEntity \/ CallService

SpecFilter == InitFilter /\ [][NextFilter]_vars

\* =================================================================== claims
LastEvent == events[Len(events)]
IsRequest(e) == e.kind = "request"
IsPrint(e) == e.kind = "print"
IsPrompt(e) == e.kind = "prompt"
Picked(e) == e.options[Unwrap(e.answer)]

\* id is d, then the separator, then anything
MatchesDomain(id, d) ==
  \E rest \in 0..Len(id) :
    /\ Len(id) = Len(d) + 1 + rest
    /\ \A i \in 1..Len(d) : id[i] = d[i]
    /\ id[Len(d) + 1] = "."

\* the entity domains a service declares in its target
DeclaredDomains(svc) ==
  IF svc.target = None THEN {}
  ELSE IF Unwrap(svc.target).entity = None THEN {}
  ELSE LET ents == Unwrap(Unwrap(svc.target).entity) IN
       UNION {IF ents[k].domain = None THEN {}
              ELSE {Unwrap(ents[k].domain)[j] : j \in 1..Len(Unwrap(ents[k].domain))} :
              k \in 1..Len(ents)}

\* C1: in the call flow, the candidates are the states matching one of the
\* target entity domains the picked service declares, in response order, and
\* all states when the service declares no target entity domain.
C1Claim ==
  (pc = "call_entity" /\ IsRequest(LastEvent)) =>
    LET all == LastEvent.response.val
        D == DeclaredDomains(Unwrap(service))
    IN entities = IF D # {}
                  THEN SelectSeq(all, LAMBDA e : \E d \in D : MatchesDomain(e.entity_id, d))
                  ELSE all

\* C2: every configuration error and every transport error, in every
\* subcommand, is followed by a printed message, and the command is over.
C2Claim ==
  /\ (IsSome(client) /\ Unwrap(client).tag = "Err") =>
       (pc = "done" /\ Len(events) >= 1 /\ IsPrint(LastEvent))
  /\ \A k \in 1..Len(events) :
       (IsRequest(events[k]) /\ ~events[k].ok) =>
         (pc = "done" /\ k < Len(events) /\ IsPrint(events[k + 1]))

\* C3: the program never panics, whatever the command, the configuration,
\* the transport outcomes and the selections.
C3Claim == pc # "panicked"

\* C4: a request is only ever sent with the configuration that a successful
\* Client::setup resolved, and a run whose setup failed prints the failure
\* and is over without a single request.
C4Thm ==
  /\ \A k \in 1..Len(events) :
       IsRequest(events[k]) =>
         /\ IsSome(client)
         /\ Unwrap(client).tag = "Ok"
         /\ events[k].bearer = Unwrap(client).access_token
         /\ events[k].bearer \in Tokens
         /\ events[k].url = <<"http://">> \o Unwrap(client).host
                              \o <<":", ToString(Unwrap(client).port)>> \o events[k].path
         /\ Unwrap(client).host \in Hosts
  /\ (IsSome(client) /\ Unwrap(client).tag = "Err") =>
       /\ pc = "done"
       /\ Len(events) = 1
       /\ IsPrint(events[1])
       /\ events[1].line[1] = "Failed to create client:\n\n"

C4Wit ==
  /\ pc = "done"
  /\ cmd.name = "call"
  /\ IsSome(client)
  /\ Unwrap(client).err = "MissingHost"
  /\ Len(events) = 1

\* the steps of the call flow, in order
CallStep(e) ==
  IF IsRequest(e) THEN
    (IF e.method = "GET" /\ e.path = <<"/api/services">> THEN 1
     ELSE IF e.method = "GET" /\ e.path = <<"/api/states">> THEN 4
     ELSE IF e.method = "POST" /\ Len(e.path) >= 1 /\ e.path[1] = "/api/services/" THEN 6
     ELSE 0)
  ELSE IF IsPrompt(e) THEN
    (IF e.prompt = "Domain" THEN 2 ELSE IF e.prompt = "Service" THEN 3
     ELSE IF e.prompt = "Entity" THEN 5 ELSE 0)
  ELSE IF e.line = <<"Service called successfully">> THEN 7 ELSE 0

\* C5: the call flow does GET /api/services, Domain prompt, Service prompt,
\* GET /api/states, Entity prompt, POST and the success line in this order,
\* each step only after every earlier one succeeded; a failed request is the
\* last thing the flow does.
C5Thm ==
  cmd.name = "call" /\ pc # "main" /\ pc # "setup" /\ pc # "dispatch"
    /\ IsSome(client) /\ Unwrap(client).tag = "Ok" =>
    /\ \A k \in 1..Len(events) :
         /\ CallStep(events[k]) = k
         /\ IsRequest(events[k]) /\ k < Len(events) => events[k].ok
         /\ IsRequest(events[k]) /\ ~events[k].ok => pc = "done"
         /\ IsPrompt(events[k]) /\ k < Len(events) => IsSome(events[k].answer)
    /\ pc = "call_domain" => Len(events) = 1
    /\ pc = "call_service" => Len(events) = 2
    /\ pc = "call_entities" => Len(events) = 3
    /\ pc = "call_entity" => Len(events) = 4
    /\ pc = "call_post" => Len(events) = 5

C5Wit ==
  /\ cmd.name = "call"
  /\ pc = "done"
  /\ Len(events) = 4
  /\ IsRequest(events[4])
  /\ ~events[4].ok

\* C6: fetch_entities_by_domain keeps, in response order, exactly the states
\* whose identifier is one of the domains followed by '.' and anything;
\* light.k is in domain light and lighting.f is not.
C6Thm ==
  (pc = "call_entity" /\ IsRequest(LastEvent) /\ IsSome(get_target_entity_domains(Unwrap(service)))) =>
    LET all == LastEvent.response.val
        ds == Unwrap(get_target_entity_domains(Unwrap(service)))
    IN /\ entities = SelectSeq(all, LAMBDA e :
                       \E k \in 1..Len(ds) : MatchesDomain(e.entity_id, ds[k]))
       /\ \A i \in 1..Len(all) :
            /\ (all[i].entity_id = <<"l", "i", "g", "h", "t", ".", "k">>
                /\ \E k \in 1..Len(ds) : ds[k] = <<"l", "i", "g", "h", "t">>)
               => \E j \in 1..Len(entities) : entities[j] = all[i]
            /\ (all[i].entity_id = <<"l", "i", "g", "h", "t", "i", "n", "g", ".", "f">>
                /\ ds = << <<"l", "i", "g", "h", "t">> >>)
               => \A j \in 1..Len(entities) : entities[j] # all[i]

C6Wit ==
  /\ pc = "call_entity"
  /\ get_target_entity_domains(Unwrap(service)) = Some(<<light>>)
  /\ Len(LastEvent.response.val) = 2
  /\ LastEvent.response.val[1].entity_id = light \o <<"i", "n", "g", ".", "f">>
  /\ LastEvent.response.val[2].entity_id = light \o <<".", "k">>
  /\ Len(entities) = 1
  /\ entities[1].entity_id = light \o <<".", "k">>

\* C7: the POST of the call flow goes to /api/services/D/S, D the domain
\* picked and S the service picked, a service of a group named D in the
\* /api/services response; its body is {entity_id: E} and nothing else, E the
\* entity picked, an entity of the /api/states response that matches a target
\* domain of S when S declares any.
C7Thm ==
  \A k \in 1..Len(events) :
    (cmd.name = "call" /\ IsRequest(events[k]) /\ events[k].method = "POST") =>
      /\ k = 6
      /\ LET D == Picked(events[2])
             S == Picked(events[3])
             E == Picked(events[5])
             groups == events[1].response.val
             states == events[4].response.val
         IN /\ events[k].path = <<"/api/services/">> \o D \o <<"/">> \o S
            /\ \E g \in 1..Len(groups) :
                 /\ groups[g].domain = D
                 /\ S \in DOMAIN groups[g].services
                 /\ DeclaredDomains(groups[g].services[S]) # {} =>
                      \E d \in DeclaredDomains(groups[g].services[S]) : MatchesDomain(E, d)
            /\ IsSome(events[k].body)
            /\ DOMAIN Unwrap(events[k].body) = {"entity_id"}
            /\ Unwrap(events[k].body)["entity_id"] = E
            /\ \E i \in 1..Len(states) : states[i].entity_id = E

C7Wit ==
  /\ cmd.name = "call"
  /\ pc = "done"
  /\ Len(events) = 7
  /\ events[6].path = <<"/api/services/">> \o light \o <<"/", "turn_on">>
  /\ Unwrap(events[6].body)["entity_id"] = scene \o <<".", "a">>

\* the value of a string of decimal digits, most significant first
DigitOf ==
  [c \in {"0", "1", "2", "3", "4", "5", "6", "7", "8", "9"} |->
     CASE c = "0" -> 0 [] c = "1" -> 1 [] c = "2" -> 2 [] c = "3" -> 3 [] c = "4" -> 4
       [] c = "5" -> 5 [] c = "6" -> 6 [] c = "7" -> 7 [] c = "8" -> 8 [] c = "9" -> 9]
RECURSIVE DecValue(_)
DecValue(d) ==
  IF d = <<>> THEN 0 ELSE 10 * DecValue(SubSeq(d, 1, Len(d) - 1)) + DigitOf[d[Len(d)]]
Unsigned(str) == IF str # <<>> /\ str[1] = "+" THEN Tail(str) ELSE str
\* str is the decimal text of an unsigned 16 bit integer
IsU16Decimal(str) ==
  /\ Unsigned(str) # <<>>
  /\ \A i \in 1..Len(Unsigned(str)) : Unsigned(str)[i] \in DOMAIN DigitOf
  /\ DecValue(Unsigned(str)) < 65536

\* C8: with the access token available, Client::setup answers MissingHost
\* when the host variable is not set; with token and host available it
\* answers InvalidPort when the port variable is set to a string that is not
\* the text of an unsigned 16 bit integer ("abc", "65536", "-1", ""), port
\* 8123 when the port variable is not set, and the value of the text
\* otherwise.
C8Thm ==
  pc \in {"dispatch", "done"} =>
    LET r == Unwrap(client)
        p == env[PORT_KEY]
        tokenOk == env[ACCESS_TOKEN_KEY].tag = "Ok"
        hostOk == env[HOST_KEY].tag = "Ok"
    IN /\ tokenOk /\ env[HOST_KEY].tag = "NotPresent" => r.tag = "Err" /\ r.err = "MissingHost"
       /\ tokenOk /\ hostOk /\ p.tag = "NotPresent" => r.tag = "Ok" /\ r.port = 8123
       /\ tokenOk /\ hostOk /\ p.tag = "Ok" /\ ~IsU16Decimal(p.val) =>
            r.tag = "Err" /\ r.err = "InvalidPort"
       /\ tokenOk /\ hostOk /\ p.tag = "Ok" /\ IsU16Decimal(p.val) =>
            r.tag = "Ok" /\ r.port = DecValue(Unsigned(p.val))
       /\ tokenOk /\ hostOk /\ p.tag = "Ok"
            /\ p.val \in {<<"a", "b", "c">>, <<"6", "5", "5", "3", "6">>, <<"-", "1">>, <<>>} =>
            r.tag = "Err" /\ r.err = "InvalidPort"
       /\ r.tag = "Ok" => r.access_token = env[ACCESS_TOKEN_KEY].val /\ r.host = env[HOST_KEY].val

C8Wit ==
  /\ pc = "done"
  /\ env[ACCESS_TOKEN_KEY].tag = "Ok"
  /\ env[HOST_KEY].tag = "Ok"
  /\ env[PORT_KEY] = VarOk(<<"6", "5", "5", "3", "6">>)
  /\ Unwrap(client).err = "InvalidPort"

\* the state has a friendly_name attribute whose value is a string
HasStringFriendlyName(st) ==
  \E k \in DOMAIN st.attributes : k = "friendly_name" /\ st.attributes[k].t = "String"

EntityListDone ==
  pc = "done" /\ cmd.name = "entity list" /\ Len(events) >= 1 /\ IsRequest(events[1]) /\ events[1].ok

\* C9 as claimed: entity list prints, for each entity of the response and in
\* its order, the one line `id - name (state)`, name being the friendly_name
\* when it is a string and the identifier otherwise.
C9Claim ==
  EntityListDone =>
    LET list == events[1].response.val IN
    /\ Len(events) = 1 + Len(list)
    /\ \A i \in 1..Len(list) :
         events[i + 1] =
           Println(list[i].entity_id \o <<" - ">>
                   \o (IF HasStringFriendlyName(list[i])
                       THEN list[i].attributes["friendly_name"].v ELSE list[i].entity_id)
                   \o <<" (">> \o list[i].state \o <<")">>)

\* C9 as amended: entity list prints, for each entity of the response and in
\* its order, one line and nothing else: `id - name (state)` when the
\* friendly_name attribute is present and a string, `id (state)` otherwise.
C9Thm ==
  EntityListDone =>
    LET list == events[1].response.val IN
    /\ Len(events) = 1 + Len(list)
    /\ \A i \in 1..Len(list) :
         events[i + 1] =
           Println(IF HasStringFriendlyName(list[i])
                   THEN list[i].entity_id \o <<" - ">> \o list[i].attributes["friendly_name"].v
                        \o <<" (">> \o list[i].state \o <<")">>
                   ELSE list[i].entity_id \o <<" (">> \o list[i].state \o <<")">>)

C9Wit ==
  /\ EntityListDone
  /\ Len(events) = 3
  /\ events[1].response.val[1].entity_id = scene \o <<".", "c">>
  /\ events[1].response.val[2].entity_id = light \o <<".", "k">>

\* the domain segment of id, the part before its first '.', is `scene`
IsSceneId(id) ==
  \E i \in 1..Len(id) :
    /\ id[i] = "."
    /\ \A j \in 1..(i - 1) : id[j] # "."
    /\ SubSeq(id, 1, i - 1) = <<"s", "c", "e", "n", "e">>

\* the line holds id
Mentions(line, id) == \E k \in 1..Len(line) : SubSeq(line, k, k + Len(id) - 1) = id

====
